---- MODULE Spec2Model ----
(***************************************************************************)
(* Model of api_backend.py: the camera worker thread (camera_worker), the  *)
(* shared DetectionState guarded by state.lock, and the HTTP handlers      *)
(* (control, reset_camera, get_status, video_feed) that run concurrently   *)
(* with the worker.  Time is counted in whole seconds and measured from    *)
(* the present: a second passing moves every stored timestamp one second   *)
(* back instead of advancing the clock, and a timestamp that is already    *)
(* more than a second beyond the interval the code compares it with is     *)
(* kept at that age.                                                       *)
(***************************************************************************)
EXTENDS Integers, Sequences, FiniteSets, TLC

\* ------------------------------------------------------------------ bounds
\* Frames read, requests served and camera faults in a run from construction;
\* frames read in a run of the started worker; faces in a detector output.
MaxFrames == 5
MaxRequests == 1
MaxFaults == 1
MaxStartedFrames == 3
\* Requests served in a run that goes on forever.
MaxEndlessRequests == 2
MaxFaces == 2
\* Votes in a buffer resolved on its own.
MaxVotes == 4

\* --------------------------------------------------------- program constants
FRAME_W == 640
FRAME_H == 360

\* The two variants of the worker differ, in the lock state machine, in the
\* size of the detection zone (percent of the frame) and in the distance
\* threshold of the nearest-match update.
api_backend == [roi_w |-> 50, roi_h |-> 75, min_dist |-> 100]
api_backend_v2 == [roi_w |-> 40, roi_h |-> 60, min_dist |-> 120]
Variants == {api_backend, api_backend_v2}

roi_w(v) == (FRAME_W * v.roi_w) \div 100
roi_h(v) == (FRAME_H * v.roi_h) \div 100
roi_x1(v) == (FRAME_W - roi_w(v)) \div 2
roi_y1(v) == (FRAME_H - roi_h(v)) \div 2
roi_x2(v) == roi_x1(v) + roi_w(v)
roi_y2(v) == roi_y1(v) + roi_h(v)
BACKOFF == 2
FIXED_DURATION == 3

None == <<>>

Max(a, b) == IF a > b THEN a ELSE b
Min(a, b) == IF a < b THEN a ELSE b

\* time.time(): the present
now == 0

\* A timestamp compared with `span` is told apart up to the age span + 1.
Oldest(span) == now - (span + 1)

emotion_labels ==
  {"Angry", "Contempt", "Disgust", "Fear", "Happy", "Sad", "Surprise",
   "Neutral"}
fer_labels ==
  {"Angry", "Disgust", "Fear", "Happy", "Sad", "Surprise", "Neutral"}

EMOTION_HEATMAP ==
  [l \in emotion_labels |->
     CASE l = "Angry" -> "red" [] l = "Contempt" -> "indigo"
       [] l = "Disgust" -> "brown" [] l = "Fear" -> "purple"
       [] l = "Happy" -> "green" [] l = "Sad" -> "blue"
       [] l = "Surprise" -> "cyan" [] OTHER -> "amber"]

\* The second definition of EMOTION_MESSAGES (the one in force) has no
\* "Contempt" entry; .get(final_emo, "Done") supplies the default.
EMOTION_MESSAGES(l) ==
  CASE l = "Happy" -> "Keep smiling!" [] l = "Sad" -> "Everything will be okay"
    [] l = "Angry" -> "Take a deep breath" [] l = "Surprise" -> "What a surprise!"
    [] l = "Fear" -> "Stay calm, you're safe" [] l = "Disgust" -> "Stay positive!"
    [] l = "Neutral" -> "Have a great day!" [] OTHER -> "Done"

\* ------------------------------------------------------------- input sets
\* Boxes (x, y, w, h) the face detector may return, in the 640x360 frame.
FaceBoxes ==
  { <<200, 100, 60, 60>>, <<240, 120, 60, 60>>, <<170, 130, 60, 60>>,
    <<300, 100, 60, 60>>, <<120, 100, 60, 60>>, <<210, 90, 90, 90>> }

RECURSIVE SeqsUpTo(_, _)
SeqsUpTo(S, n) ==
  IF n = 0 THEN { <<>> }
  ELSE LET shorter == SeqsUpTo(S, n - 1)
       IN shorter \cup
          { Append(s, e) : s \in { t \in shorter : Len(t) = n - 1 },
                           e \in S }

Distinct(s) == \A i, j \in 1..Len(s) : i # j => s[i] # s[j]

\* Outputs of face_cascade.detectMultiScale: ordered lists of distinct boxes.
DetectorOutputs(boxes) == { s \in SeqsUpTo(boxes, MaxFaces) : Distinct(s) }

\* The boxes in front of the camera in the runs of the whole program: two
\* in the zone and near each other, one outside the zone.
SceneBoxes ==
  { <<200, 100, 60, 60>>, <<240, 120, 60, 60>>, <<120, 100, 60, 60>> }

\* Labels the emotion classifier returns in the runs of the whole program.
VoteLabels == {"Happy", "Sad"}

\* refine_emotion_with_ckplus: both branches return the label given.
refine_emotion_with_ckplus(base_emotion) ==
  IF base_emotion = "Happy" THEN "Happy" ELSE base_emotion

\* The labels a vote can carry.
RefinedLabels ==
  { refine_emotion_with_ckplus(raw_emo) : raw_emo \in fer_labels }

\* ------------------------------------------------------------ pure helpers
Abs(n) == IF n < 0 THEN -n ELSE n

InZone(f, v) ==
  LET cx == f[1] + f[3] \div 2
      cy == f[2] + f[4] \div 2
  IN roi_x1(v) < cx /\ cx < roi_x2(v) /\ roi_y1(v) < cy /\ cy < roi_y2(v)

\* Variant: every detected face is a candidate.
RoiFacesAll(faces, v) == faces

RoiFaces(faces, v) == LET Inside(f) == InZone(f, v) IN SelectSeq(faces, Inside)

Dist(f, lx, ly) == Abs(f[1] - lx) + Abs(f[2] - ly)

\* Variant: a candidate as near as the best so far replaces it.
RECURSIVE BestFromLast(_, _, _, _, _, _)
BestFromLast(cands, i, lx, ly, best, min_dist) ==
  IF i > Len(cands) THEN best
  ELSE IF Dist(cands[i], lx, ly) <= min_dist
       THEN BestFromLast(cands, i + 1, lx, ly, cands[i],
                         Dist(cands[i], lx, ly))
       ELSE BestFromLast(cands, i + 1, lx, ly, best, min_dist)

RECURSIVE BestFrom(_, _, _, _, _, _)
BestFrom(cands, i, lx, ly, best, min_dist) ==
  IF i > Len(cands) THEN best
  ELSE IF Dist(cands[i], lx, ly) < min_dist
       THEN BestFrom(cands, i + 1, lx, ly, cands[i], Dist(cands[i], lx, ly))
       ELSE BestFrom(cands, i + 1, lx, ly, best, min_dist)

BestMatch(cands, lx, ly, min_dist) ==
  BestFrom(cands, 1, lx, ly, None, min_dist)

\* locked_face after the lock state machine of a detection tick (lines
\* 269-281): nearest-match update or clear when Locked, first zone face
\* when Unlocked.
\* Variant: any zone face counts as a new lock.
IsNewLockAnyFace(lf, roi_faces) == roi_faces # <<>>

IsNewLock(lf, roi_faces) == lf = None /\ roi_faces # <<>>

\* Variant: an update starts the window again.
LockUpdateRestart(lf, roi_faces, v) ==
  LET best_match == BestMatch(roi_faces, lf.box[1], lf.box[2], v.min_dist)
  IN IF best_match # None THEN [box |-> best_match, start_time |-> now]
     ELSE None

\* Variant: with no match, the lock jumps to the first zone face.
LockUpdateJumps(lf, roi_faces, v) ==
  LET best_match == BestMatch(roi_faces, lf.box[1], lf.box[2], v.min_dist)
  IN IF best_match # None THEN [lf EXCEPT !.box = best_match]
     ELSE IF roi_faces # <<>>
          THEN [box |-> roi_faces[1], start_time |-> now]
          ELSE None

LockUpdate(lf, roi_faces, v) ==
  LET best_match == BestMatch(roi_faces, lf.box[1], lf.box[2], v.min_dist)
  IN IF best_match # None THEN [lf EXCEPT !.box = best_match] ELSE None

\* Variant: the first zone face is locked afresh on every detection tick.
LockStepAfresh(lf, roi_faces, t, v) ==
  IF roi_faces # <<>> THEN [box |-> roi_faces[1], start_time |-> t] ELSE None

\* Variant: the last zone face is locked.
LockStepLast(lf, roi_faces, t, v) ==
  IF lf # None THEN LockUpdate(lf, roi_faces, v)
  ELSE IF IsNewLock(lf, roi_faces)
       THEN [box |-> roi_faces[Len(roi_faces)], start_time |-> t]
       ELSE None

LockStep(lf, roi_faces, t, v) ==
  IF lf # None THEN LockUpdate(lf, roi_faces, v)
  ELSE IF IsNewLock(lf, roi_faces)
       THEN [box |-> roi_faces[1], start_time |-> t]
       ELSE None

\* Variant: a new lock keeps the votes of the last one.
LockMachineKeepsVotes(s, roi_faces, t, v) ==
  [s EXCEPT
     !.locked_face = LockStep(s.locked_face, roi_faces, t, v),
     !.analysis_complete =
        IF IsNewLock(s.locked_face, roi_faces) THEN FALSE ELSE @]

\* lines 269-281 on the state: the lock state machine, and the buffer and
\* the completion flag reset with a new lock
LockMachine(s, roi_faces, t, v) ==
  LET created == IsNewLock(s.locked_face, roi_faces)
  IN [s EXCEPT
        !.locked_face = LockStep(s.locked_face, roi_faces, t, v),
        !.analysis_buffer = IF created THEN <<>> ELSE @,
        !.analysis_complete = IF created THEN FALSE ELSE @]

\* Variant: a new lock is not counted.
NoVisitorCounted(s) == s

\* line 282
CountVisitor(s) == [s EXCEPT !.visitors = @ + 1]

\* lines 260-282 in sequence: the state a detection tick's detection leaves
DetectionStep(s, faces, t, v) ==
  LET roi_faces == RoiFaces(faces, v)
      after == LockMachine(s, roi_faces, t, v)
  IN IF IsNewLock(s.locked_face, roi_faces) THEN CountVisitor(after)
     ELSE after

\* face_roi = frame[max(0,y):min(h,y+fh), max(0,x):min(w,x+fw)]; its size.
FaceRoiSize(box) ==
  LET rows == Min(FRAME_H, box[2] + box[4]) - Max(0, box[2])
      cols == Min(FRAME_W, box[1] + box[3]) - Max(0, box[1])
  IN IF rows > 0 /\ cols > 0 THEN rows * cols ELSE 0

\* collections.Counter(buffer): the keys in order of first occurrence.
RECURSIVE CounterKeys(_, _, _)
CounterKeys(buf, i, keys) ==
  IF i > Len(buf) THEN keys
  ELSE IF \E k \in 1..Len(keys) : keys[k] = buf[i]
       THEN CounterKeys(buf, i + 1, keys)
       ELSE CounterKeys(buf, i + 1, Append(keys, buf[i]))

CounterCount(buf, l) == Cardinality({ i \in 1..Len(buf) : buf[i] = l })

\* most_common(1): max() over the items in key order keeps the first
\* item whose count is strictly greater than every earlier one.
\* Variant: a later key with the same count replaces the best so far.
RECURSIVE LastMax(_, _, _, _)
LastMax(buf, keys, i, best) ==
  IF i > Len(keys) THEN best
  ELSE IF CounterCount(buf, keys[i]) >= CounterCount(buf, best)
       THEN LastMax(buf, keys, i + 1, keys[i])
       ELSE LastMax(buf, keys, i + 1, best)

RECURSIVE FirstMax(_, _, _, _)
FirstMax(buf, keys, i, best) ==
  IF i > Len(keys) THEN best
  ELSE IF CounterCount(buf, keys[i]) > CounterCount(buf, best)
       THEN FirstMax(buf, keys, i + 1, keys[i])
       ELSE FirstMax(buf, keys, i + 1, best)

MostCommon(buf) ==
  LET keys == CounterKeys(buf, 1, <<>>)
  IN FirstMax(buf, keys, 2, keys[1])

FinalEmotion(buf) == IF buf # <<>> THEN MostCommon(buf) ELSE "Neutral"

\* Variant: the result is stored without its message.
FinalResultWithoutMessage(final_emo, age_gender) ==
  [emotion |-> final_emo, age |-> age_gender[1], gender |-> age_gender[2],
   heatmap |-> IF final_emo \in DOMAIN EMOTION_HEATMAP
               THEN EMOTION_HEATMAP[final_emo] ELSE "amber"]

FinalResult(final_emo, age_gender) ==
  [emotion |-> final_emo, age |-> age_gender[1], gender |-> age_gender[2],
   heatmap |-> IF final_emo \in DOMAIN EMOTION_HEATMAP
               THEN EMOTION_HEATMAP[final_emo] ELSE "amber",
   message |-> <<EMOTION_MESSAGES(final_emo)>>]

\* Variant: the window is timed from its first vote.
ElapsedOfAnalysis(s, t) ==
  IF s.analysis_buffer = <<>> THEN 0 ELSE t - s.locked_face.start_time

\* line 298: elapsed = now - state.locked_face['start_time']
Elapsed(s, t) == t - s.locked_face.start_time

\* Variant: the percentage is not capped.
ProgressUncapped(el) == (el * 100) \div FIXED_DURATION

Progress(el) == Min((el * 100) \div FIXED_DURATION, 100)
ScanMessage(el) == <<"Neural Scan (CK+ Standard): ", Progress(el), "%">>

\* Variant: any later moment is late enough.
BackoffElapsedAtOnce(t, last) == t - last > 0

BackoffElapsed(t, last) == t - last > BACKOFF
\* Variant: the window is resolved as soon as 3.0 s have elapsed.
WindowElapsedInclusive(el) == el >= FIXED_DURATION

WindowElapsed(el) == el > FIXED_DURATION
\* Variant: detection on every tick.
IsDetectionTickAlways(fc) == TRUE

IsDetectionTick(fc) == fc % 2 = 0
\* Variant: detection whatever the run flag, as in api_backend.
DetectionV2Always(s, running, faces, t) ==
  IF IsDetectionTick(s.frame_count)
  THEN DetectionStep(s, faces, t, api_backend_v2) ELSE s

\* api_backend_v2.camera_worker, lines 255-298: detection and the lock
\* state machine stand inside `if running:` and `if frame_count % 2 == 0:`
DetectionV2(s, running, faces, t) ==
  IF running /\ IsDetectionTick(s.frame_count)
  THEN DetectionStep(s, faces, t, api_backend_v2) ELSE s

\* Variant: the window never closes.
WindowOpenForever(complete) == TRUE

\* line 300: if not state.analysis_complete
WindowOpen(complete) == ~complete

\* Variant: the resolution is counted under "Neutral".
CountResolutionAsNeutral(stats, final_emo) ==
  [stats EXCEPT !["Neutral"] = @ + 1]

\* line 322: state.emotion_stats[final_emo] += 1
CountResolution(stats, final_emo) == [stats EXCEPT ![final_emo] = @ + 1]

\* detect_age_gender running the nets whether they were loaded or not.
AgeGenderResultsAnyway(enabled) ==
  { <<"N/A", "N/A">>, <<"(25-32)", "Female">> }

\* Results of detect_age_gender: the sentinel when the nets are missing or
\* inference raises, otherwise one of the labels of AGE_RANGES/GENDER_LIST.
AgeGenderResults(enabled) ==
  IF enabled THEN { <<"N/A", "N/A">>, <<"(25-32)", "Female">> }
  ELSE { <<"N/A", "N/A">> }


\* ------------------------------------------------------------------ state
VARIABLES
  lock,    \* state.lock: "none" or the thread that holds it
  state,   \* the DetectionState object
  cfg,     \* emotion_model loaded?, AGE_GENDER_ENABLED; length of the run
  wk,      \* camera_worker: program counter and locals
  http,    \* the HTTP request being served and the last response
  gh,      \* history: what the run has done so far
  call     \* a pure function applied on its own: arguments and result

vars == <<lock, state, cfg, wk, http, gh, call>>

\* The fields of a status response that only the worker writes.
View(s) ==
  [emotion |-> s.emotion, age |-> s.age, gender |-> s.gender,
   message |-> s.message, heatmap |-> s.heatmap, visitors |-> s.visitors,
   emotion_stats |-> s.emotion_stats]

\* The tracking state: the FaceLock, the analysis window, the counters.
Tracking(s) ==
  [locked_face |-> s.locked_face, analysis_buffer |-> s.analysis_buffer,
   analysis_complete |-> s.analysis_complete,
   final_result |-> s.final_result, frame_count |-> s.frame_count,
   visitors |-> s.visitors, emotion_stats |-> s.emotion_stats]

\* The fields of the state object in which s and t differ.
Written(s, t) == { f \in DOMAIN s : s[f] # t[f] }

DetectionState(emotion_model) ==
  [is_running |-> FALSE, camera_url |-> "", emotion |-> "Neutral",
   age |-> "N/A", gender |-> "N/A", visitors |-> 0,
   message |-> <<"System Ready">>, heatmap |-> "amber",
   emotion_stats |-> [l \in emotion_labels |-> 0],
   current_frame |-> None,
   system_status |-> [camera |-> "System Camera",
                      ai_model |-> IF emotion_model THEN "Active" ELSE "Error",
                      backend |-> "Running"],
   locked_face |-> None, analysis_buffer |-> <<>>,
   analysis_complete |-> FALSE, final_result |-> <<>>,
   frame_count |-> 0, reset_requested |-> FALSE]

\* camera_worker's locals at line 200.  last_reconnect_attempt is 0 in the
\* source, time.time() being some 10^9: the oldest timestamp there is.
WorkerStart ==
  [pc |-> "top", cap |-> FALSE, last_reconnect_attempt |-> Oldest(BACKOFF),
   running |-> FALSE, elapsed |-> 0, overlay |-> "", faults |-> 0]

\* No request in flight, no response kept.
Idle == [pc |-> "idle", cmd |-> "none", resp |-> None, served |-> 0]

NoHistory(s) ==
  [tickView |-> View(s), snap |-> None, snapBase |-> None,
   locksCreated |-> 0, createdFrom |-> "none",
   resolved |-> [l \in emotion_labels |-> 0], lockResolutions |-> 0,
   frozen |-> None, lastFailed |-> FALSE, retryGaps |-> {},
   afterReset |-> FALSE, classified |-> FALSE, failedRead |-> None,
   resetPending |-> FALSE, control |-> None,
   ageGenderCalls |-> 0, votesSinceLock |-> 0, reclassified |-> FALSE,
   resolvedAt |-> {}, oddKept |-> TRUE, framesRead |-> 0,
   handlerWrote |-> {}, lowered |-> FALSE, tickBuffer |-> 0,
   outageKept |-> TRUE, idleKept |-> TRUE]

\* No pure function is applied on its own in the runs of the whole program.
NoCall == [fn |-> "none"]

\* The process with its models loaded or not, in front of the faces of
\* `scene`, for a run of the given length (frames read, requests served,
\* faults of the camera or exceptions), or an endless one.
Configured(models, run_flag, run) ==
  /\ lock = "none"
  /\ cfg = [emotion_model |-> models.emotion_model,
            AGE_GENDER_ENABLED |-> models.AGE_GENDER_ENABLED,
            frames |-> run.frames, requests |-> run.requests,
            faults |-> run.faults, endless |-> run.endless,
            scene |-> run.scene]
  /\ state = [DetectionState(cfg.emotion_model) EXCEPT !.is_running = run_flag]
  /\ wk = WorkerStart
  /\ http = Idle
  /\ gh = NoHistory(state)

Construct(models, run_flag, frames) ==
  Configured(models, run_flag,
             [frames |-> frames, requests |-> MaxRequests,
              faults |-> MaxFaults, endless |-> FALSE, scene |-> SceneBoxes])

Start(models, run_flag, frames) ==
  /\ Construct(models, run_flag, frames)
  /\ call = NoCall

BothModels == [emotion_model |-> TRUE, AGE_GENDER_ENABLED |-> TRUE]

\* The process right after construction, with both models loaded.
Init == Start(BothModels, FALSE, MaxFrames)

\* The same, a start command having been served before the first tick.
InitStarted == Start(BothModels, TRUE, MaxStartedFrames)

\* A timestamp a second later.
Older(t, span) == Max(t - 1, Oldest(span))

\* The state a second later: the window's start is a second further back.
Aged(s) ==
  IF s.locked_face = None THEN s
  ELSE [s EXCEPT !.locked_face.start_time = Older(@, FIXED_DURATION)]

\* ------------------------------------------------------- history variable
\* A worker step in which no time passes replaced the FaceLock by a new one.
LockCreated(s, t) ==
  /\ t.locked_face # None
  /\ \/ s.locked_face = None
     \/ s.locked_face.start_time # t.locked_face.start_time

IsOpenAttempt(w, v) == w.pc = "reconnect" /\ v.pc \in {"pub_ready", "pub_nocam"}

\* The window has just been resolved: the completion flag went up.
Resolved(s, t) == ~s.analysis_complete /\ t.analysis_complete

\* The run has a frame, or a fault, left.  In an endless run nothing is
\* counted: frame_count is kept modulo 2, which is all that line 259 reads
\* of it.
FrameLeft == cfg.endless \/ state.frame_count < cfg.frames
FaultLeft == cfg.endless \/ wk.faults < cfg.faults
Fault(n) == IF cfg.endless THEN n ELSE n + 1
NextFrameCount(n) == IF cfg.endless THEN (n + 1) % 2 ELSE n + 1

\* Where the worker is while it processes a frame it has read (lines
\* 246-341), before the frame is published.
FramePcs ==
  {"read", "pub_vis", "analyze", "pub_scan", "resolve", "pub_stats",
   "republish", "pub_res", "pub_idle", "frame"}

\* Where the worker is in a tick without a camera (lines 209-236) and
\* after a failed read (242-243).
OutagePcs == {"reconnect", "pub_nocam", "pub_wait", "pub_lost"}

\* Where the worker is in a tick after it sampled the run flag (line 207).
SampledPcs ==
  FramePcs \cup OutagePcs \cup {"pub_ready", "pub_frame"}

\* gh only observes the worker's step; it never constrains it.
\*   tickView         View at the end of the last finished tick
\*   snap, snapBase   the last status response and the tickView it was
\*                    taken over, kept until the tick it overlaps has ended
\*   locksCreated     number of FaceLocks created so far
\*   createdFrom      "Locked"/"Unlocked": state the last one was created in
\*   resolved         per label, number of windows resolved to it
\*   lockResolutions  histogram increments since the last FaceLock creation
\*   frozen           final_result and buffer as the last resolution left them
\*   lastFailed       the last open attempt failed
\*   retryGaps        seconds between an open attempt that followed a
\*                    failed one and that failed one, for each such attempt
\*   afterReset       the last finished tick was a reset tick
\*   classified       a classifier was invoked in the tick under way
\*   failedRead       after a failed cap.read(), until the next tick starts:
\*                    what the worker had when the read failed, and the
\*                    camera status it has published since
\*   resetPending     reset_requested was set with the handle open, and
\*                    the handle has been open ever since
\*   control          of the last control command: the run flag it found,
\*                    the command served before it, whether it kept every
\*                    other field of the state
\*   ageGenderCalls   calls of detect_age_gender since the last FaceLock
\*                    creation
\*   votesSinceLock   votes appended since the last FaceLock creation
\*   reclassified     a classifier has been invoked with analysis_complete
\*                    set
\*   resolvedAt       the elapsed times at which windows were resolved
\*   oddKept          no step of a tick with odd frame_count has changed
\*                    locked_face or visitors
\*   framesRead       successful reads of a frame
\*   handlerWrote     the fields of state an HTTP handler has changed
\*   lowered          a worker step has lowered visitors or an entry of
\*                    emotion_stats
\*   tickBuffer       length of analysis_buffer when the tick under way
\*                    began
\*   outageKept       no step of a failed read, of an open attempt or of a
\*                    backoff has changed the tracking state
\*   idleKept         no step of a tick that sampled the run flag false has
\*                    changed a field other than locked_face, visitors,
\*                    frame_count, system_status, current_frame, and the
\*                    buffer and flag a new lock resets
Observe ==
  LET tickEnds == wk'.pc = "top"
      created == wk.pc = "read" /\ LockCreated(state, state')
      counted == state'.emotion_stats # state.emotion_stats
      resolves == Resolved(state, state')
      attempts == IsOpenAttempt(wk, wk')
      classifies == \/ wk'.pc = "pub_scan" /\ cfg.emotion_model
                    \/ wk'.pc = "pub_stats" /\ cfg.AGE_GENDER_ENABLED
      votes == wk.pc = "analyze" /\ wk'.pc = "pub_scan" /\ cfg.emotion_model
      callsAgeGender == wk.pc = "resolve" /\ wk'.pc = "pub_stats"
      reads == wk.pc = "read" /\ wk'.pc \notin {"read", "pub_lost"}
      oddStep == IF wk.pc = "pub_frame" THEN state.frame_count % 2 = 0
                 ELSE wk.pc \in FramePcs /\ state.frame_count % 2 = 1
      outageStep == \/ wk.pc \in OutagePcs
                    \/ wk.pc = "read" /\ wk'.pc = "pub_lost"
      sleeps == wk.pc = "reconnect" /\ wk'.pc = "pub_wait"
      idleStep == wk.pc \in SampledPcs /\ ~wk.running
      resets == state'.analysis_buffer # state.analysis_buffer
                  \/ state'.analysis_complete # state.analysis_complete
  IN gh' =
       [tickView |-> IF tickEnds THEN View(state') ELSE gh.tickView,
        snap |-> IF wk.pc = "top" THEN None ELSE gh.snap,
        snapBase |-> IF wk.pc = "top" THEN None ELSE gh.snapBase,
        locksCreated |-> gh.locksCreated + (IF created THEN 1 ELSE 0),
        createdFrom |->
          IF created
          THEN (IF state.locked_face = None THEN "Unlocked" ELSE "Locked")
          ELSE gh.createdFrom,
        resolved |->
          IF resolves
          THEN [gh.resolved EXCEPT ![state'.final_result.emotion] = @ + 1]
          ELSE gh.resolved,
        lockResolutions |->
          IF created THEN 0
          ELSE gh.lockResolutions + (IF counted THEN 1 ELSE 0),
        frozen |->
          IF resolves
          THEN [result |-> state'.final_result,
                buffer |-> state'.analysis_buffer]
          ELSE IF created THEN None ELSE gh.frozen,
        lastFailed |-> IF attempts THEN ~wk'.cap ELSE gh.lastFailed,
        retryGaps |->
          IF attempts /\ gh.lastFailed
          THEN gh.retryGaps \cup {now - wk.last_reconnect_attempt}
          ELSE gh.retryGaps,
        afterReset |-> IF tickEnds THEN wk.pc = "pub_rst"
                       ELSE gh.afterReset,
        classified |-> IF wk.pc = "top" THEN FALSE
                       ELSE gh.classified \/ classifies,
        failedRead |->
          IF wk'.pc = "pub_lost"
          THEN [frame_count |-> state.frame_count,
                current_frame |-> state.current_frame,
                last_reconnect_attempt |-> wk.last_reconnect_attempt,
                camera |-> None]
          ELSE IF wk.pc = "pub_lost"
          THEN [gh.failedRead EXCEPT !.camera = state'.system_status.camera]
          ELSE IF wk.pc = "top" THEN None ELSE gh.failedRead,
        resetPending |-> gh.resetPending /\ wk'.cap,
        control |-> gh.control,
        ageGenderCalls |->
          IF created THEN 0
          ELSE gh.ageGenderCalls + (IF callsAgeGender THEN 1 ELSE 0),
        votesSinceLock |->
          IF created THEN 0
          ELSE gh.votesSinceLock + (IF votes THEN 1 ELSE 0),
        reclassified |->
          \/ gh.reclassified
          \/ (votes \/ callsAgeGender) /\ state.analysis_complete,
        resolvedAt |-> IF callsAgeGender
                       THEN gh.resolvedAt \cup {wk.elapsed}
                       ELSE gh.resolvedAt,
        oddKept |->
          /\ gh.oddKept
          /\ oddStep => /\ state'.locked_face = state.locked_face
                        /\ state'.visitors = state.visitors,
        framesRead |-> IF reads THEN NextFrameCount(gh.framesRead)
                       ELSE gh.framesRead,
        handlerWrote |-> gh.handlerWrote,
        lowered |->
          \/ gh.lowered
          \/ state'.visitors < state.visitors
          \/ \E l \in emotion_labels :
               state'.emotion_stats[l] < state.emotion_stats[l],
        tickBuffer |-> IF wk.pc = "top" THEN Len(state.analysis_buffer)
                       ELSE gh.tickBuffer,
        outageKept |->
          /\ gh.outageKept
          /\ outageStep =>
               Tracking(state') =
                 Tracking(IF sleeps THEN Aged(state) ELSE state),
        idleKept |->
          /\ gh.idleKept
          /\ idleStep =>
               /\ Written(state, state') \subseteq
                    {"locked_face", "analysis_buffer", "analysis_complete",
                     "visitors", "frame_count", "system_status",
                     "current_frame"}
               /\ resets => /\ created
                            /\ state'.analysis_buffer = <<>>
                            /\ ~state'.analysis_complete]

\* ------------------------------------------------------------------ clock
\* One second passes.
SecondPasses(w, s) ==
  /\ wk' = [w EXCEPT !.last_reconnect_attempt = Older(@, BACKOFF)]
  /\ state' = Aged(s)

\* Time passes while the worker waits for the next frame in cap.read()
\* (and in time.sleep, see the two sleeps).
Tick ==
  /\ wk.pc = "read"
  /\ SecondPasses(wk, state)
  /\ UNCHANGED <<lock, cfg, call, http, gh>>

\* ----------------------------------------------------------- camera_worker
\* A step of the worker runs up to the next point where another thread's
\* step can matter: it ends having entered `with state.lock:` (the lock
\* was free), or at the end of the tick.
Take == lock = "none" /\ lock' = "worker"
Release == lock = "worker" /\ lock' = "none"

\* line 201: if state.reset_requested; else line 207 enters the lock
WCheckReset ==
  /\ wk.pc = "top"
  /\ IF state.reset_requested
     THEN wk' = [wk EXCEPT !.pc = "rst_release"] /\ UNCHANGED lock
     ELSE wk' = [wk EXCEPT !.pc = "pub_run"] /\ Take
  /\ UNCHANGED <<state, cfg, call, http>>
  /\ Observe

\* A reset tick that keeps the handle.
WResetKeepsHandle ==
  /\ wk.pc = "rst_release"
  /\ wk' = [wk EXCEPT !.pc = "rst_clear"]
  /\ UNCHANGED <<lock, state, cfg, call, http>>
  /\ Observe

\* lines 202-203: release the handle; cap = None
WResetRelease ==
  /\ wk.pc = "rst_release"
  /\ wk' = [wk EXCEPT !.pc = "rst_clear", !.cap = FALSE]
  /\ UNCHANGED <<lock, state, cfg, call, http>>
  /\ Observe

\* lines 203-204: clear the flag (outside the lock), enter the lock
WResetClear ==
  /\ wk.pc = "rst_clear"
  /\ wk' = [wk EXCEPT !.pc = "pub_rst"]
  /\ state' = [state EXCEPT !.reset_requested = FALSE]
  /\ Take
  /\ UNCHANGED <<cfg, call, http>>
  /\ Observe

\* lines 204-205: "Resetting...", time.sleep(1), continue
WPubReset ==
  /\ wk.pc = "pub_rst"
  /\ Release
  /\ SecondPasses([wk EXCEPT !.pc = "top"],
                  [state EXCEPT !.system_status.camera = "Resetting..."])
  /\ UNCHANGED <<cfg, call, http>>
  /\ Observe

\* A tick that keeps the run flag it sampled before.
WSampleRunStale ==
  /\ wk.pc = "pub_run"
  /\ Release
  /\ wk' = [wk EXCEPT !.pc = IF wk.cap THEN "read" ELSE "reconnect"]
  /\ UNCHANGED <<state, cfg, call, http>>
  /\ Observe

\* line 207: running = state.is_running, then `if cap is None` (209)
WSampleRun ==
  /\ wk.pc = "pub_run"
  /\ Release
  /\ wk' = [wk EXCEPT !.running = state.is_running,
                      !.pc = IF wk.cap THEN "read" ELSE "reconnect"]
  /\ UNCHANGED <<state, cfg, call, http>>
  /\ Observe

\* lines 210-226: an open attempt once the backoff has elapsed
WOpenAttempt ==
  /\ wk.pc = "reconnect"
  /\ BackoffElapsed(now, wk.last_reconnect_attempt)
  /\ \E opened \in BOOLEAN :
       /\ opened \/ FaultLeft
       /\ wk' = [wk EXCEPT !.last_reconnect_attempt = now, !.cap = opened,
                           !.pc = IF opened THEN "pub_ready" ELSE "pub_nocam",
                           !.faults = IF opened THEN @ ELSE Fault(@)]
  /\ Take
  /\ UNCHANGED <<state, cfg, call, http>>
  /\ Observe

\* lines 227-233: backoff not elapsed: time.sleep(1), placeholder frame
WBackoffSleep ==
  /\ wk.pc = "reconnect"
  /\ ~BackoffElapsed(now, wk.last_reconnect_attempt)
  /\ SecondPasses([wk EXCEPT !.pc = "pub_wait"], state)
  /\ Take
  /\ UNCHANGED <<cfg, call, http>>
  /\ Observe

\* line 222, then `if cap:` (238)
WPubReady ==
  /\ wk.pc = "pub_ready"
  /\ Release
  /\ state' = [state EXCEPT !.system_status.camera = "Default Camera Ready"]
  /\ wk' = [wk EXCEPT !.pc = "read"]
  /\ UNCHANGED <<cfg, call, http>>
  /\ Observe

\* A failed open that ends the worker.
WPubNoCameraFatal ==
  /\ wk.pc = "pub_nocam"
  /\ Release
  /\ state' = [state EXCEPT !.system_status.camera = "Error: No Camera Found"]
  /\ wk' = [wk EXCEPT !.pc = "dead"]
  /\ UNCHANGED <<cfg, call, http>>
  /\ Observe

\* line 226, then `if cap:` is false and the loop starts over
WPubNoCamera ==
  /\ wk.pc = "pub_nocam"
  /\ Release
  /\ state' = [state EXCEPT !.system_status.camera = "Error: No Camera Found"]
  /\ wk' = [wk EXCEPT !.pc = "top"]
  /\ UNCHANGED <<cfg, call, http>>
  /\ Observe

\* lines 233-236: placeholder frame and status; continue
WPubSearching ==
  /\ wk.pc = "pub_wait"
  /\ Release
  /\ state' = [state EXCEPT !.current_frame = <<"SEARCHING CAMERA...">>,
                            !.system_status.camera = "Searching..."]
  /\ wk' = [wk EXCEPT !.pc = "top"]
  /\ UNCHANGED <<cfg, call, http>>
  /\ Observe

\* A failed read that keeps the handle.
WReadFailKeepsHandle ==
  /\ wk.pc = "read"
  /\ FaultLeft
  /\ wk' = [wk EXCEPT !.pc = "pub_lost", !.faults = Fault(@)]
  /\ Take
  /\ UNCHANGED <<state, cfg, call, http>>
  /\ Observe

\* A failed read that drops the FaceLock.
WReadFailDropsLock ==
  /\ wk.pc = "read"
  /\ FaultLeft
  /\ wk' = [wk EXCEPT !.cap = FALSE, !.pc = "pub_lost", !.faults = Fault(@)]
  /\ state' = [state EXCEPT !.locked_face = None]
  /\ Take
  /\ UNCHANGED <<cfg, call, http>>
  /\ Observe

\* lines 239-242: cap.read() fails: release the handle, enter the lock
WReadFail ==
  /\ wk.pc = "read"
  /\ FaultLeft
  /\ wk' = [wk EXCEPT !.cap = FALSE, !.pc = "pub_lost", !.faults = Fault(@)]
  /\ Take
  /\ UNCHANGED <<state, cfg, call, http>>
  /\ Observe

\* lines 242-243: "Connection Lost"; continue
WPubLost ==
  /\ wk.pc = "pub_lost"
  /\ Release
  /\ state' = [state EXCEPT !.system_status.camera = "Connection Lost"]
  /\ wk' = [wk EXCEPT !.pc = "top"]
  /\ UNCHANGED <<cfg, call, http>>
  /\ Observe

\* lines 239-282 on a detection tick: a frame is read, the detector runs,
\* the faces in the zone drive the lock state machine; a new lock enters
\* the lock to count the visitor.
WDetect ==
  /\ wk.pc = "read"
  /\ FrameLeft
  /\ IsDetectionTick(state.frame_count)
  /\ \E faces \in DetectorOutputs(cfg.scene) :
       LET roi_faces == RoiFaces(faces, api_backend)
           created == IsNewLock(state.locked_face, roi_faces)
       IN /\ state' = LockMachine(state, roi_faces, now, api_backend)
          /\ IF created
             THEN wk' = [wk EXCEPT !.pc = "pub_vis"] /\ Take
             ELSE wk' = [wk EXCEPT !.pc = "analyze"] /\ UNCHANGED lock
  /\ UNCHANGED <<cfg, call, http>>
  /\ Observe

\* line 262: detectMultiScale raises.  No try encloses it in camera_worker
\* (the only one, lines 213-224, is around the open), so the exception
\* leaves the function and the thread started at line 413 ends.
WDetectRaises ==
  /\ wk.pc = "read"
  /\ FrameLeft
  /\ IsDetectionTick(state.frame_count)
  /\ FaultLeft
  /\ wk' = [wk EXCEPT !.pc = "dead", !.faults = Fault(@)]
  /\ UNCHANGED <<lock, state, cfg, call, http>>
  /\ Observe

\* lines 239-259 on a tick with odd frame_count: no detection
WNoDetect ==
  /\ wk.pc = "read"
  /\ FrameLeft
  /\ ~IsDetectionTick(state.frame_count)
  /\ wk' = [wk EXCEPT !.pc = "analyze"]
  /\ UNCHANGED <<lock, state, cfg, call, http>>
  /\ Observe

\* line 282
WPubVisitors ==
  /\ wk.pc = "pub_vis"
  /\ Release
  /\ state' = CountVisitor(state)
  /\ wk' = [wk EXCEPT !.pc = "analyze"]
  /\ UNCHANGED <<cfg, call, http>>
  /\ Observe

\* lines 285, 290, 294
Analysing ==
  /\ state.locked_face # None
  /\ wk.running
  /\ FaceRoiSize(state.locked_face.box) > 0

\* lines 285-310: locked, running, window open: classify, vote, enter the
\* lock to publish the progress
WVote ==
  /\ wk.pc = "analyze"
  /\ Analysing
  /\ WindowOpen(state.analysis_complete)
  /\ IF cfg.emotion_model
     THEN \E raw_emo \in VoteLabels :
            LET refined_emo == refine_emotion_with_ckplus(raw_emo)
            IN state' = [state EXCEPT
                           !.analysis_buffer = Append(@, refined_emo)]
     ELSE UNCHANGED state
  /\ wk' = [wk EXCEPT !.elapsed = Elapsed(state, now),
                      !.pc = "pub_scan"]
  /\ Take
  /\ UNCHANGED <<cfg, call, http>>
  /\ Observe

\* line 302: emotion_model.predict raises, outside any try: the thread ends
WPredictRaises ==
  /\ wk.pc = "analyze"
  /\ Analysing
  /\ WindowOpen(state.analysis_complete)
  /\ cfg.emotion_model
  /\ FaultLeft
  /\ wk' = [wk EXCEPT !.pc = "dead", !.faults = Fault(@)]
  /\ UNCHANGED <<lock, state, cfg, call, http>>
  /\ Observe

\* A tick that resolves a resolved window again.
WFrozenResolvesAgain ==
  /\ wk.pc = "analyze"
  /\ Analysing
  /\ ~WindowOpen(state.analysis_complete)
  /\ wk' = [wk EXCEPT !.elapsed = Elapsed(state, now),
                      !.pc = "resolve"]
  /\ UNCHANGED <<lock, state, cfg, call, http>>
  /\ Observe

\* lines 285-300, 324-326: locked, running, window resolved: republish
WFrozen ==
  /\ wk.pc = "analyze"
  /\ Analysing
  /\ ~WindowOpen(state.analysis_complete)
  /\ wk' = [wk EXCEPT !.elapsed = Elapsed(state, now),
                      !.pc = "pub_res"]
  /\ Take
  /\ UNCHANGED <<state, cfg, call, http>>
  /\ Observe

\* lines 333-335 (locked, not running: the text is put on the frame),
\* 336-337 (unlocked, not running) and 294 (empty crop): nothing is
\* published
WNoAnalysis ==
  /\ wk.pc = "analyze"
  /\ ~Analysing
  /\ state.locked_face # None \/ ~wk.running
  /\ wk' = [wk EXCEPT !.pc = "frame",
                      !.overlay = IF state.locked_face # None /\ ~wk.running
                                  THEN "AI READY - PRESS START" ELSE @]
  /\ UNCHANGED <<lock, state, cfg, call, http>>
  /\ Observe

\* An unlocked tick that publishes the idle message, running or not.
WUnlockedAlways ==
  /\ wk.pc = "analyze"
  /\ state.locked_face = None
  /\ wk' = [wk EXCEPT !.pc = "pub_idle"]
  /\ Take
  /\ UNCHANGED <<state, cfg, call, http>>
  /\ Observe

\* lines 336-338: unlocked and running
WUnlocked ==
  /\ wk.pc = "analyze"
  /\ state.locked_face = None
  /\ wk.running
  /\ wk' = [wk EXCEPT !.pc = "pub_idle"]
  /\ Take
  /\ UNCHANGED <<state, cfg, call, http>>
  /\ Observe

\* lines 311-314
WPubScan ==
  /\ wk.pc = "pub_scan"
  /\ Release
  /\ state' = [state EXCEPT !.emotion = "Analyzing...",
                            !.message = ScanMessage(wk.elapsed),
                            !.age = "...", !.gender = "..."]
  /\ wk' = [wk EXCEPT !.pc = IF WindowElapsed(wk.elapsed) THEN "resolve"
                             ELSE "frame"]
  /\ UNCHANGED <<cfg, call, http>>
  /\ Observe

\* lines 315-322: resolve the window, enter the lock for the histogram
WResolve ==
  /\ wk.pc = "resolve"
  /\ \E age_gender \in AgeGenderResults(cfg.AGE_GENDER_ENABLED) :
       state' = [state EXCEPT
                   !.final_result =
                      FinalResult(FinalEmotion(state.analysis_buffer),
                                  age_gender),
                   !.analysis_complete = TRUE]
  /\ wk' = [wk EXCEPT !.pc = "pub_stats"]
  /\ Take
  /\ UNCHANGED <<cfg, call, http>>
  /\ Observe

\* line 322
WPubStats ==
  /\ wk.pc = "pub_stats"
  /\ Release
  /\ state' = [state EXCEPT
                 !.emotion_stats =
                    CountResolution(@, state.final_result.emotion)]
  /\ wk' = [wk EXCEPT !.pc = "republish"]
  /\ UNCHANGED <<cfg, call, http>>
  /\ Observe

\* lines 324-326 on the resolving tick: enter the lock to publish
WRepublish ==
  /\ wk.pc = "republish"
  /\ wk' = [wk EXCEPT !.pc = "pub_res"]
  /\ Take
  /\ UNCHANGED <<state, cfg, call, http>>
  /\ Observe

\* lines 327-328
WPubResult ==
  /\ wk.pc = "pub_res"
  /\ Release
  /\ LET res == state.final_result
     IN state' = [state EXCEPT !.emotion = res.emotion,
                               !.heatmap = res.heatmap,
                               !.message = res.message,
                               !.age = res.age, !.gender = res.gender]
  /\ wk' = [wk EXCEPT !.pc = "frame"]
  /\ UNCHANGED <<cfg, call, http>>
  /\ Observe

\* line 339
WPubIdle ==
  /\ wk.pc = "pub_idle"
  /\ Release
  /\ state' = [state EXCEPT !.emotion = "Neutral", !.heatmap = "amber",
                            !.message = <<"Please step into the Zone">>]
  /\ wk' = [wk EXCEPT !.pc = "frame"]
  /\ UNCHANGED <<cfg, call, http>>
  /\ Observe

\* lines 341-343: count the frame, encode it, enter the lock
WFrame ==
  /\ wk.pc = "frame"
  /\ state' = [state EXCEPT !.frame_count = NextFrameCount(@)]
  /\ wk' = [wk EXCEPT !.pc = "pub_frame", !.elapsed = 0]
  /\ Take
  /\ UNCHANGED <<cfg, call, http>>
  /\ Observe

\* line 343: the encoded frame, with the text that was put on it
WPubFrame ==
  /\ wk.pc = "pub_frame"
  /\ Release
  /\ state' = [state EXCEPT !.current_frame = <<"frame", wk.overlay>>]
  /\ wk' = [wk EXCEPT !.pc = "top", !.overlay = ""]
  /\ UNCHANGED <<cfg, call, http>>
  /\ Observe

\* ------------------------------------------------------------ HTTP handlers
\* One request is served at a time; http.resp is the body of the last
\* response of control or video_feed, dropped when the next request starts.
Commands == {"start", "stop", "status"}

\* A request is accepted: any earlier response is gone.
Accept(pc, cmd) ==
  /\ http.pc = "idle"
  /\ http.served < cfg.requests
  /\ http' = [Idle EXCEPT !.pc = pc, !.cmd = cmd, !.served = http.served + 1]

\* control, lines 377-379: the command is parsed and the lock taken
Control ==
  /\ lock = "none"
  /\ lock' = "http"
  /\ \E cmd \in Commands : Accept("ctl_set", cmd)
  /\ gh' = [gh EXCEPT !.control = [before |-> state.is_running,
                                   previous |-> http.cmd, kept |-> TRUE]]
  /\ UNCHANGED <<state, cfg, call, wk>>

\* A command that is neither start nor stop toggles the flag.
RunFlagToggled(cmd, flag) ==
  IF cmd = "start" THEN TRUE ELSE IF cmd = "stop" THEN FALSE ELSE ~flag

RunFlagAfter(cmd, flag) ==
  IF cmd = "start" THEN TRUE ELSE IF cmd = "stop" THEN FALSE ELSE flag

\* control, lines 380-381
ControlSet ==
  /\ http.pc = "ctl_set" /\ lock = "http"
  /\ state' = [state EXCEPT !.is_running = RunFlagAfter(http.cmd, @)]
  /\ lock' = "none"
  /\ http' = [http EXCEPT !.pc = "ctl_ret"]
  /\ gh' = [gh EXCEPT !.control.kept =
                        ([state' EXCEPT !.is_running = state.is_running]
                           = state),
                      !.handlerWrote = @ \cup Written(state, state')]
  /\ UNCHANGED <<cfg, call, wk>>

\* control, line 382: the response reads state.is_running again
ControlReturn ==
  /\ http.pc = "ctl_ret"
  /\ http' = [http EXCEPT !.pc = "idle",
                          !.resp = [status |-> "ok",
                                    is_running |-> state.is_running]]
  /\ UNCHANGED <<lock, state, cfg, call, wk, gh>>

\* reset_camera, line 364
ResetCamera ==
  /\ lock = "none"
  /\ lock' = "http"
  /\ Accept("rc_pub", "none")
  /\ UNCHANGED <<state, cfg, call, wk, gh>>

\* reset_camera, line 365
ResetPub ==
  /\ http.pc = "rc_pub" /\ lock = "http"
  /\ state' = [state EXCEPT !.system_status.camera = "Resetting..."]
  /\ lock' = "none"
  /\ http' = [http EXCEPT !.pc = "rc_flag"]
  /\ gh' = [gh EXCEPT !.handlerWrote = @ \cup Written(state, state')]
  /\ UNCHANGED <<cfg, call, wk>>

\* reset_camera, lines 369-370
ResetFlag ==
  /\ http.pc = "rc_flag"
  /\ state' = [state EXCEPT !.reset_requested = TRUE]
  /\ http' = [http EXCEPT !.pc = "idle"]
  /\ gh' = [gh EXCEPT !.resetPending = wk.cap,
                      !.handlerWrote = @ \cup Written(state, state')]
  /\ UNCHANGED <<lock, cfg, call, wk>>

\* get_status, line 386
GetStatus ==
  /\ lock = "none"
  /\ lock' = "http"
  /\ Accept("st_read", "none")
  /\ UNCHANGED <<state, cfg, call, wk, gh>>

StatusResponse(s) ==
  [is_running |-> s.is_running, camera_url |-> s.camera_url,
   emotion |-> s.emotion, age |-> s.age, gender |-> s.gender,
   visitors |-> s.visitors, message |-> s.message, heatmap |-> s.heatmap,
   emotion_stats |-> s.emotion_stats, system_status |-> s.system_status]

\* get_status, lines 387-398: the response is built under the lock.  It is
\* kept in gh.snap, with the view the last finished tick left, until the
\* tick it overlaps has ended.
GetStatusRead ==
  /\ http.pc = "st_read" /\ lock = "http"
  /\ gh' = [gh EXCEPT !.snap = StatusResponse(state),
                      !.snapBase = gh.tickView]
  /\ lock' = "none"
  /\ http' = [http EXCEPT !.pc = "idle"]
  /\ UNCHANGED <<state, cfg, call, wk>>

\* video_feed gen(), line 405
VideoFeed ==
  /\ lock = "none"
  /\ lock' = "http"
  /\ Accept("vf_read", "none")
  /\ UNCHANGED <<state, cfg, call, wk, gh>>

\* video_feed gen(), lines 405-408: a frame is yielded if there is one
VideoFeedRead ==
  /\ http.pc = "vf_read" /\ lock = "http"
  /\ http' = [http EXCEPT !.pc = "idle",
                          !.resp = [frame |-> state.current_frame]]
  /\ lock' = "none"
  /\ UNCHANGED <<state, cfg, call, wk, gh>>

\* ------------------------------------------------------------ specification
\* The worker thread, with the passage of time.
Worker ==
  \/ Tick
  \/ WCheckReset \/ WResetRelease \/ WResetClear \/ WPubReset
  \/ WSampleRun \/ WOpenAttempt \/ WBackoffSleep \/ WPubReady
  \/ WPubNoCamera \/ WPubSearching \/ WReadFail \/ WPubLost
  \/ WDetect \/ WDetectRaises \/ WNoDetect \/ WPubVisitors
  \/ WVote \/ WPredictRaises \/ WFrozen \/ WNoAnalysis \/ WUnlocked
  \/ WPubScan \/ WResolve \/ WPubStats \/ WRepublish \/ WPubResult
  \/ WPubIdle
  \/ WFrame \/ WPubFrame

Next ==
  \/ Worker
  \/ Control \/ ControlSet \/ ControlReturn
  \/ ResetCamera \/ ResetPub \/ ResetFlag
  \/ GetStatus \/ GetStatusRead \/ VideoFeed \/ VideoFeedRead

\* The whole program from construction.
Spec == Init /\ [][Next]_vars

\* The whole program, started before the worker's first tick.
SpecStarted == InitStarted /\ [][Next]_vars

\* Model loading failed (lines 70-76 leave emotion_model None, lines 133-137
\* leave AGE_GENDER_ENABLED False): one of the two, or both.
DegradedModels ==
  [emotion_model : BOOLEAN, AGE_GENDER_ENABLED : BOOLEAN] \ {BothModels}

InitDegraded ==
  \E models \in DegradedModels : Start(models, TRUE, MaxStartedFrames)

\* The started program with a model missing.
SpecDegraded == InitDegraded /\ [][Next]_vars

\* ------------------------------------------------------------ endless runs
\* Nobody is in front of the camera, the worker runs on for ever, the
\* camera may fail at every open and every read, the detector may raise;
\* a bounded number of requests is served.
EmptyRoom ==
  [frames |-> 0, requests |-> MaxEndlessRequests, faults |-> 0,
   endless |-> TRUE, scene |-> {}]

InitEndless == Configured(BothModels, FALSE, EmptyRoom) /\ call = NoCall

\* The steps of the worker thread in front of an empty scene.
WorkerThread ==
  \/ WCheckReset \/ WResetRelease \/ WResetClear \/ WPubReset
  \/ WSampleRun \/ WOpenAttempt \/ WBackoffSleep \/ WPubReady
  \/ WPubNoCamera \/ WPubSearching \/ WReadFail \/ WPubLost
  \/ WDetect \/ WDetectRaises \/ WNoDetect
  \/ WNoAnalysis \/ WUnlocked \/ WPubIdle
  \/ WFrame \/ WPubFrame

\* A request arrives; a handler that has started runs on.
Arrive == Control \/ ResetCamera \/ GetStatus \/ VideoFeed
Serve ==
  \/ ControlSet \/ ControlReturn \/ ResetPub \/ ResetFlag
  \/ GetStatusRead \/ VideoFeedRead

NextEndless == Tick \/ WorkerThread \/ Arrive \/ Serve

\* Both threads are scheduled again and again: the daemon thread of line
\* 413 takes its next step, a handler that has started takes its next
\* step.  Nothing is assumed of the camera or of the clients.
SpecEndless ==
  InitEndless /\ [][NextEndless]_vars
  /\ WF_vars(WorkerThread) /\ WF_vars(Serve)

\* --------------------------------------------- pure functions on their own
\* The lock state machine of a detection tick (lines 269-281; v2 285-298)
\* applied to a lock state and a detector output, in either variant.  A
\* FaceLock always holds a box that was in the zone when it was detected.
LockStates(v) ==
  {None} \cup
  { [box |-> b, start_time |-> now - age] :
      b \in { f \in FaceBoxes : InZone(f, v) },
      age \in 0..(FIXED_DURATION + 1) }

\* States a detection tick can find with the lock state lf: no window yet,
\* a window with a vote, a window resolved on that vote.  The buffer, the
\* flag, the result and the histogram of the last window stay when its
\* lock is cleared.
WindowStates(lf) ==
  LET fresh == DetectionState(TRUE)
      resolved == FinalResult("Happy", <<"N/A", "N/A">>)
      voted == [fresh EXCEPT !.visitors = 1, !.locked_face = lf,
                             !.analysis_buffer = <<"Happy">>]
  IN { voted,
       [voted EXCEPT !.analysis_complete = TRUE, !.final_result = resolved,
                     !.emotion_stats = CountResolution(@, "Happy")] }
     \cup (IF lf = None THEN {fresh}
           ELSE {[fresh EXCEPT !.visitors = 1, !.locked_face = lf]})

InitLockStep ==
  /\ Construct(BothModels, FALSE, MaxFrames)
  /\ \E v \in Variants, faces \in DetectorOutputs(FaceBoxes) :
       \E lf \in LockStates(v) :
         \E s \in WindowStates(lf) :
           call = [fn |-> "lock_step", variant |-> v, locked_face |-> lf,
                   faces |-> faces, before |-> s, done |-> FALSE,
                   result |-> None, after |-> None]

ApplyLockStep ==
  /\ call.fn = "lock_step" /\ ~call.done
  /\ LET after == DetectionStep(call.before, call.faces, now, call.variant)
     IN call' = [call EXCEPT !.done = TRUE, !.after = after,
                             !.result = after.locked_face]
  /\ UNCHANGED <<lock, state, cfg, wk, http, gh>>

SpecLockStep == InitLockStep /\ [][ApplyLockStep]_vars

\* The detection of one tick of api_backend_v2.camera_worker applied to
\* the run flag the tick sampled, a state and a detector output.
InitDetectionV2 ==
  /\ Construct(BothModels, FALSE, MaxFrames)
  /\ \E running \in BOOLEAN, fc \in 0..1,
        faces \in DetectorOutputs(FaceBoxes) :
       \E lf \in LockStates(api_backend_v2) :
         \E s \in WindowStates(lf) :
           call = [fn |-> "detection_v2", running |-> running,
                   faces |-> faces,
                   before |-> [s EXCEPT !.frame_count = fc,
                                        !.is_running = running],
                   done |-> FALSE, after |-> None]

ApplyDetectionV2 ==
  /\ call.fn = "detection_v2" /\ ~call.done
  /\ call' = [call EXCEPT
                !.done = TRUE,
                !.after = DetectionV2(call.before, call.running, call.faces,
                                      now)]
  /\ UNCHANGED <<lock, state, cfg, wk, http, gh>>

SpecDetectionV2 == InitDetectionV2 /\ [][ApplyDetectionV2]_vars

\* The resolution of the analysis window (line 316) applied to a vote buffer.
InitResolve ==
  /\ Construct(BothModels, FALSE, MaxFrames)
  /\ \E buf \in SeqsUpTo(RefinedLabels, MaxVotes) :
       call = [fn |-> "resolve", buffer |-> buf, done |-> FALSE,
               result |-> None]

ApplyResolve ==
  /\ call.fn = "resolve" /\ ~call.done
  /\ call' = [call EXCEPT !.done = TRUE,
                          !.result = FinalEmotion(call.buffer)]
  /\ UNCHANGED <<lock, state, cfg, wk, http, gh>>

SpecResolve == InitResolve /\ [][ApplyResolve]_vars

\* ------------------------------------------------------------------ claims
\* The statements at which a thread reads or writes a field of state that
\* both the worker and the handlers touch (is_running, reset_requested,
\* the display fields, the counters, current_frame, system_status).
WorkerSharedAccess ==
  {"top", "rst_clear", "pub_rst", "pub_run", "pub_ready", "pub_nocam",
   "pub_wait", "pub_lost", "pub_vis", "pub_scan", "pub_stats", "pub_res",
   "pub_idle", "pub_frame"}
HttpSharedAccess ==
  {"ctl_set", "ctl_ret", "rc_pub", "rc_flag", "st_read", "vf_read"}

\* C1: a status response built under one acquisition of state.lock shows
\* the worker-written fields as one finished tick left them: once the tick
\* the read overlapped has ended, the response equals the view before that
\* tick or the view after it.
C1_StatusFromOneTick ==
  (wk.pc = "top" /\ gh.snap # None)
    => View(gh.snap) \in {gh.snapBase, gh.tickView}

\* C2: a thread that is at a statement reading or writing a field shared
\* by the worker and the handlers holds state.lock.
C2_SharedAccessUnderLock ==
  /\ wk.pc \in WorkerSharedAccess => lock = "worker"
  /\ http.pc \in HttpSharedAccess => lock = "http"

\* C3: locked_face holds no FaceLock or exactly one, and no FaceLock has been
\* created while another one existed.
C3_OneLockCreatedFromUnlocked ==
  /\ \/ state.locked_face = None
     \/ state.locked_face \in
          [box : SceneBoxes, start_time : Oldest(FIXED_DURATION)..now]
  /\ gh.createdFrom # "Locked"

\* A second FaceLock exists: the first one went through a detection tick
\* that cleared it.
C3_Witness == gh.locksCreated = 2 /\ state.locked_face # None

\* Faces of a detector output by index, and their distance to the lock.
FaceIndices(c) == 1..Len(c.faces)
LockDist(c, i) == Dist(c.faces[i], c.locked_face.box[1], c.locked_face.box[2])
ZoneIndices(c) == { i \in FaceIndices(c) : InZone(c.faces[i], c.variant) }
LockedCall == call.fn = "lock_step" /\ call.done /\ call.locked_face # None

\* The lock state machine selected, among the faces numbered `among`, one at
\* minimal distance from the lock if that distance is below the threshold
\* (the box becomes that face's, the start time is kept), and cleared the
\* lock otherwise.
SelectsNearest(c, among) ==
  LET near == { i \in among : LockDist(c, i) < c.variant.min_dist }
  IN IF near = {} THEN c.result = None
     ELSE \E i \in near :
            /\ \A j \in near : LockDist(c, i) <= LockDist(c, j)
            /\ c.result = [c.locked_face EXCEPT !.box = c.faces[i]]

\* C4 as stated: on a detection tick in state Locked the nearest of all the
\* faces the detector returned is selected if nearer than the threshold,
\* else the lock is cleared.
C4_NearestOfAllDetected == LockedCall => SelectsNearest(call, FaceIndices(call))

\* C4 amended: on a detection tick in state Locked the nearest of the
\* detected faces whose centre is inside the detection zone (the first of
\* them in detector order if several are nearest) is selected if nearer
\* than the threshold, else the lock is cleared.
C4_NearestInZone ==
  LockedCall =>
    /\ SelectsNearest(call, ZoneIndices(call))
    /\ call.result # None =>
         \A i, j \in ZoneIndices(call) :
           (call.faces[j] = call.result.box /\ i < j)
             => LockDist(call, i) > LockDist(call, j)

\* A face outside the zone was nearer to the lock than the face selected.
C4_Witness ==
  /\ LockedCall /\ call.result # None
  /\ \E i \in FaceIndices(call) \ ZoneIndices(call), j \in ZoneIndices(call) :
       /\ call.faces[j] = call.result.box
       /\ LockDist(call, i) < LockDist(call, j)

\* C5: visitors is the number of FaceLocks created (each created in state
\* Unlocked), the one being counted at line 282 excepted: nothing else
\* changes it.
C5_VisitorsCountNewLocks ==
  state.visitors = gh.locksCreated - (IF wk.pc = "pub_vis" THEN 1 ELSE 0)

\* Two visitors counted, with a lock clear and a camera fault in between.
C5_Witness == state.visitors = 2 /\ wk.faults > 0 /\ wk.pc = "top"

\* Occurrences of a label in a buffer, and its first position.
Occurrences(buf, l) == Cardinality({ i \in 1..Len(buf) : buf[i] = l })
FirstOccurrence(buf, l) ==
  CHOOSE i \in 1..Len(buf) : buf[i] = l /\ \A j \in 1..(i - 1) : buf[j] # l

\* C6: the resolution of a buffer is "Neutral" if it is empty, else a label
\* of the buffer with the highest count and, among those, the earliest
\* first occurrence.
C6_MostFrequentEarliestFirst ==
  (call.fn = "resolve" /\ call.done) =>
    LET buf == call.buffer
        res == call.result
    IN IF buf = <<>> THEN res = "Neutral"
       ELSE /\ Occurrences(buf, res) > 0
            /\ \A l \in emotion_labels :
                 /\ Occurrences(buf, l) <= Occurrences(buf, res)
                 /\ (l # res /\ Occurrences(buf, l) = Occurrences(buf, res))
                      => FirstOccurrence(buf, res) < FirstOccurrence(buf, l)

\* [Sad, Happy] resolved to Sad.
C6_Witness ==
  /\ call.fn = "resolve" /\ call.done
  /\ call.buffer = <<"Sad", "Happy">> /\ call.result = "Sad"

\* The display fields as published.
Published(s) ==
  [emotion |-> s.emotion, age |-> s.age, gender |-> s.gender,
   heatmap |-> s.heatmap, message |-> s.message]

\* C7: while analysis_complete is set, final_result and the buffer are as
\* the resolution left them; and a tick of the running worker that is
\* Locked with the flag set has, by the time it counts its frame, published
\* final_result.
C7_ResolvedResultFrozen ==
  /\ state.analysis_complete =>
       /\ gh.frozen # None
       /\ state.final_result = gh.frozen.result
       /\ state.analysis_buffer = gh.frozen.buffer
  /\ ( /\ wk.pc = "frame" /\ wk.running
       /\ state.locked_face # None /\ state.analysis_complete )
       => Published(state) = state.final_result

\* A tick after the resolving one republished the result.
C7_Witness ==
  /\ wk.pc = "frame" /\ wk.running /\ state.frame_count > 2
  /\ state.locked_face # None /\ state.analysis_complete
  /\ gh.lockResolutions = 1

\* C8: each histogram entry is the number of windows resolved to its label
\* (the one being counted at line 322 excepted), and the histogram has
\* changed at most once since the last FaceLock was created.
C8_HistogramCountsResolutions ==
  /\ \A l \in emotion_labels :
       state.emotion_stats[l] =
         gh.resolved[l] -
           (IF wk.pc = "pub_stats" /\ state.final_result.emotion = l
            THEN 1 ELSE 0)
  /\ gh.lockResolutions <= 1

\* A window resolved to Sad was counted, and ticks followed.
C8_Witness ==
  /\ state.emotion_stats =
       [l \in emotion_labels |-> IF l = "Sad" THEN 1 ELSE 0]
  /\ state.frame_count = cfg.frames /\ wk.pc = "top"

\* C9: an open attempt that followed a failed one came at least the backoff
\* interval after it.
C9_RetryAfterBackoff == \A gap \in gh.retryGaps : gap >= BACKOFF

\* An open attempt followed a failed one.
C9_Witness == gh.retryGaps # {} /\ wk.pc \in {"pub_ready", "pub_nocam"}

\* C10: the tick that follows a reset tick does not sleep out the backoff:
\* it attempts to open the capture device.
C10_ResetClearsBackoff == gh.afterReset => wk.pc # "pub_wait"

\* C11: an exception raised by face detection or by a classifier during a
\* tick never terminates the worker loop: the worker goes on to execute
\* further ticks.
C11_ExceptionsNeverFatal == wk.pc # "dead"

\* C13: on a tick that sampled the run flag false and ends with a FaceLock,
\* every FaceLock created so far has been counted as a visitor, no
\* classifier was invoked, and the status message reads "press start".
C13_IdleLockShowsPressStart ==
  (wk.pc = "frame" /\ ~wk.running /\ state.locked_face # None) =>
     /\ state.visitors = gh.locksCreated
     /\ ~gh.classified
     /\ state.message = <<"AI READY - PRESS START">>

\* C14: when a reset tick has ended, no FaceLock exists and the analysis
\* window of the previous lock is abandoned.
C14_ResetClearsFaceLock ==
  (gh.afterReset /\ wk.pc = "top") =>
     /\ state.locked_face = None
     /\ state.analysis_buffer = <<>>
     /\ ~state.analysis_complete

\* C20: from a failed read to the end of its tick the handle is released,
\* no open attempt is made (last_reconnect_attempt stays), no frame is
\* counted or published, and the only camera status published is
\* "Connection Lost".
C20_FailedReadEndsTick ==
  gh.failedRead # None =>
     /\ wk.pc \in {"pub_lost", "top"}
     /\ ~wk.cap
     /\ wk.last_reconnect_attempt = gh.failedRead.last_reconnect_attempt
     /\ state.frame_count = gh.failedRead.frame_count
     /\ state.current_frame = gh.failedRead.current_frame
     /\ ~gh.classified
     /\ IF wk.pc = "top" THEN gh.failedRead.camera = "Connection Lost"
        ELSE gh.failedRead.camera = None

C20_Witness ==
  /\ gh.failedRead # None
  /\ wk.pc = "top"
  /\ state.frame_count > 0
  /\ state.locked_face # None

\* C12: with a model unavailable a locked and running window still resolves
\* once more than 3.0 s have elapsed, and the result is published on that
\* tick; without the emotion classifier no vote is recorded and the result
\* is "Neutral"; without the age/gender model the age and gender of the
\* result, and those published, are the sentinel "N/A" ("..." while the
\* window is open).
C12_DegradedWindowResolves ==
  /\ (wk.pc = "frame" /\ WindowElapsed(wk.elapsed)) =>
        /\ state.analysis_complete
        /\ Published(state) = state.final_result
  /\ ~cfg.emotion_model =>
        /\ state.analysis_buffer = <<>>
        /\ state.analysis_complete => state.final_result.emotion = "Neutral"
  /\ ~cfg.AGE_GENDER_ENABLED =>
        /\ state.age \in {"N/A", "..."} /\ state.gender \in {"N/A", "..."}
        /\ state.analysis_complete =>
              /\ state.final_result.age = "N/A"
              /\ state.final_result.gender = "N/A"

C12_Witness ==
  /\ ~cfg.emotion_model /\ ~cfg.AGE_GENDER_ENABLED
  /\ wk.pc = "top" /\ state.analysis_complete
  /\ state.emotion = "Neutral" /\ state.age = "N/A" /\ state.gender = "N/A"
  /\ state.emotion_stats["Neutral"] = 1

\* C18: a failed open or a failed read never ends the worker; again and
\* again the device is open or an open attempt has just failed, so that
\* an attempt is made, and opens the device if it is there, however long
\* no device is open.
C18_OpenAttemptsForEver == []<>(wk.cap \/ wk.pc = "pub_nocam")

C18_Witness ==
  /\ wk.pc = "pub_nocam"
  /\ gh.lastFailed /\ gh.retryGaps # {}
  /\ state.current_frame = <<"SEARCHING CAMERA...">>

C16_ControlSetsRunFlag ==
  (http.cmd \in Commands /\ http.pc \in {"ctl_ret", "idle"}) =>
     LET expected == IF http.cmd = "start" THEN TRUE
                     ELSE IF http.cmd = "stop" THEN FALSE
                     ELSE gh.control.before
     IN /\ state.is_running = expected
        /\ gh.control.kept
        /\ http.pc = "idle" =>
              http.resp = [status |-> "ok", is_running |-> expected]
        /\ gh.control.previous = http.cmd =>
              state.is_running = gh.control.before

C16_Witness ==
  /\ http.pc = "idle" /\ http.cmd = "start"
  /\ gh.control.previous = "start"
  /\ http.resp.is_running /\ wk.running

\* C17: whenever no device is open, the worker comes to publish a frame,
\* the placeholder if no real one, so that a streamer comes to have a frame
\* to yield (unless an exception has ended the worker thread).
C17_FrameWhileNoDevice ==
  ~wk.cap ~> (state.current_frame # None \/ wk.pc = "dead")

UnlockedCall == call.fn = "lock_step" /\ call.done /\ call.locked_face = None

\* C21: on a detection tick in state Unlocked a FaceLock is created if and
\* only if some detected face has its centre inside the detection zone; it
\* then holds the first such face in detector order and the time of the
\* tick, the vote buffer is empty and the completion flag false.
C21_FirstZoneFaceLocked ==
  UnlockedCall =>
    LET zone == ZoneIndices(call)
    IN /\ call.after.locked_face # None <=> zone # {}
       /\ zone # {} =>
            /\ \E i \in zone :
                 /\ \A j \in zone : i <= j
                 /\ call.after.locked_face =
                      [box |-> call.faces[i], start_time |-> now]
            /\ call.after.analysis_buffer = <<>>
            /\ ~call.after.analysis_complete

\* A smaller face is locked, listed before a larger one in the zone, the
\* window of the last lock having been resolved.
C21_Witness ==
  /\ UnlockedCall
  /\ call.faces = <<(<<200, 100, 60, 60>>), (<<210, 90, 90, 90>>)>>
  /\ call.before.analysis_complete
  /\ call.after.locked_face.box = <<200, 100, 60, 60>>

\* C22: a lock update changes the box of the FaceLock and nothing else of
\* the state: start time, vote buffer, completion flag, resolved result,
\* visitor counter and histogram are as before.
C22_UpdateChangesBoxOnly ==
  (LockedCall /\ call.after.locked_face # None) =>
    [call.after EXCEPT !.locked_face.box = call.locked_face.box]
      = call.before

C22_Witness ==
  /\ LockedCall /\ call.after.locked_face # None
  /\ call.after.locked_face.box # call.locked_face.box
  /\ call.locked_face.start_time < now
  /\ call.before.analysis_complete

\* A detector output without its i-th face, and with a box put before its
\* i-th face (at the end for i past the last).
WithoutFace(faces, i) ==
  [k \in 1..(Len(faces) - 1) |-> IF k < i THEN faces[k] ELSE faces[k + 1]]

WithFace(faces, i, box) ==
  [k \in 1..(Len(faces) + 1) |->
     IF k < i THEN faces[k] ELSE IF k = i THEN box ELSE faces[k - 1]]

\* C23: the state the detection leaves is the same when a face whose
\* centre is outside the zone is removed from the detector output, and
\* when one is added to it at any place.
C23_OutsideFacesIgnored ==
  (call.fn = "lock_step" /\ call.done) =>
    /\ \A i \in FaceIndices(call) \ ZoneIndices(call) :
         DetectionStep(call.before, WithoutFace(call.faces, i), now,
                       call.variant) = call.after
    /\ \A box \in { f \in FaceBoxes : ~InZone(f, call.variant) } :
         \A i \in 1..(Len(call.faces) + 1) :
           DetectionStep(call.before, WithFace(call.faces, i, box), now,
                         call.variant) = call.after

\* A face outside the zone is listed first and is the nearest to the lock,
\* which moves to the zone face listed after it.
C23_Witness ==
  /\ LockedCall /\ call.variant = api_backend_v2
  /\ call.faces = <<(<<120, 100, 60, 60>>), (<<300, 100, 60, 60>>)>>
  /\ call.locked_face.box = <<200, 100, 60, 60>>
  /\ call.after.locked_face.box = <<300, 100, 60, 60>>

\* C24: whenever the emotion classifier or the age/gender classifier has
\* just been invoked, a FaceLock exists and the run flag is set.
C24_ClassifiersOnlyWhileRunning ==
  (\/ wk.pc = "pub_scan" /\ cfg.emotion_model
   \/ wk.pc = "pub_stats") =>
     /\ state.locked_face # None
     /\ state.is_running

\* C25: since the last FaceLock was created detect_age_gender has been
\* called once if its window is resolved and not at all otherwise, and no
\* classifier has ever been invoked with the completion flag set.
C25_ClassifiersStopAtResolution ==
  /\ gh.ageGenderCalls = IF state.analysis_complete THEN 1 ELSE 0
  /\ ~gh.reclassified

\* A resolved window has gone through one more tick of the running worker.
C25_Witness ==
  /\ state.analysis_complete /\ gh.ageGenderCalls = 1
  /\ wk.pc = "pub_res" /\ state.frame_count = cfg.frames - 1
  /\ Published(state) = state.final_result

\* C26: every window was resolved at an elapsed time of more than 3.0 s,
\* and a tick that analysed at such a time ends with the window resolved.
C26_ResolvedAfterWindow ==
  /\ \A el \in gh.resolvedAt : el > FIXED_DURATION
  /\ (wk.pc = "frame" /\ wk.elapsed > FIXED_DURATION) =>
        state.analysis_complete

\* A tick has analysed at 3.0 s and left the window open.
C26_Witness ==
  /\ wk.pc = "frame" /\ wk.elapsed = FIXED_DURATION
  /\ ~state.analysis_complete /\ Len(state.analysis_buffer) = 2

\* C27: the buffer holds the votes appended since the last FaceLock was
\* created and no others; and while the window of that lock is not
\* resolved, nothing has been resolved or added to the histogram since
\* the lock was created, whether the lock is still there or not.
C27_ClearedWindowAbandoned ==
  /\ Len(state.analysis_buffer) = gh.votesSinceLock
  /\ ~state.analysis_complete =>
        /\ gh.frozen = None
        /\ gh.lockResolutions = 0
        /\ gh.ageGenderCalls = 0

\* A lock with two votes was cleared, and the idle message published.
C27_Witness ==
  /\ state.locked_face = None /\ ~state.analysis_complete
  /\ Len(state.analysis_buffer) = 2
  /\ state.message = <<"Please step into the Zone">>
  /\ \A l \in emotion_labels : state.emotion_stats[l] = 0

C29_VotesOnDetectionTicksOnly ==
  (wk.pc = "pub_scan" /\ cfg.emotion_model) => state.frame_count % 2 = 0

\* C30: the progress published on a tick that analysed an open window is
\* the whole percentage of 3.0 s that has elapsed, 100 from 3.0 s on; it
\* lies in 0..100 and is never less than the one published before for
\* the same lock.
C30_ProgressOfWindow ==
  LET percent(el) == IF el >= FIXED_DURATION THEN 100
                     ELSE (100 * el) \div FIXED_DURATION
      scanning == Len(state.message) > 1
  IN /\ scanning => state.message[2] \in 0..100
     /\ (wk.pc \in {"resolve", "frame"} /\ gh.classified
           /\ ~state.analysis_complete) =>
          /\ scanning
          /\ state.message[2] = percent(wk.elapsed)
     /\ (wk.pc = "pub_scan" /\ gh.votesSinceLock > 1) =>
          /\ scanning
          /\ state.message[2] <= percent(wk.elapsed)

\* 100 % is published at 3.0 s, the window still open.
C30_Witness ==
  /\ wk.pc = "frame" /\ ~state.analysis_complete
  /\ wk.elapsed = FIXED_DURATION
  /\ state.message = <<"Neural Scan (CK+ Standard): ", 100, "%">>

\* C31: the HTTP handlers change no field of the state object other than
\* the run flag and the reset-request flag.
C31_HandlersWriteFlagsOnly ==
  gh.handlerWrote \subseteq {"is_running", "reset_requested"}

\* The sum of the entries of a histogram.
RECURSIVE HistogramTotal(_, _)
HistogramTotal(stats, labels) ==
  IF labels = {} THEN 0
  ELSE LET l == CHOOSE x \in labels : TRUE
       IN stats[l] + HistogramTotal(stats, labels \ {l})

\* C32: the entries of emotion_stats add up to at most visitors, and no
\* step of the worker or of a handler has lowered visitors or an entry.
C32_ResolutionsWithinVisitors ==
  /\ HistogramTotal(state.emotion_stats, emotion_labels) <= state.visitors
  /\ ~gh.lowered
  /\ gh.handlerWrote \cap {"visitors", "emotion_stats"} = {}

\* A second visitor is counted, the first one's window having been
\* resolved.
C32_Witness ==
  /\ state.visitors = 2
  /\ HistogramTotal(state.emotion_stats, emotion_labels) = 1
  /\ state.locked_face # None /\ ~state.analysis_complete

\* C33: a tick that sampled the run flag set and holds a FaceLock acquired
\* more than 3.0 s ago ends with the window resolved, whatever the time
\* for which the window has been analysed, and no tick adds more than one
\* vote to the buffer it found.
C33_WindowTimedFromAcquisition ==
  /\ (/\ wk.pc = "frame" /\ wk.running
      /\ state.locked_face # None
      /\ now - state.locked_face.start_time > FIXED_DURATION)
       => state.analysis_complete
  /\ Len(state.analysis_buffer) <= gh.tickBuffer + 1

\* A lock acquired with the run flag false and never analysed is resolved,
\* on one vote, in the first tick after the start command.
C33_Witness ==
  /\ wk.pc = "pub_stats" /\ http.cmd = "start"
  /\ state.frame_count > 0 /\ gh.tickBuffer = 0
  /\ gh.locksCreated = 1 /\ state.analysis_buffer = <<"Sad">>
  /\ state.message = <<"Neural Scan (CK+ Standard): ", 100, "%">>

\* C34: no step of a failed read, of an open attempt (failed or not) or of
\* a backoff tick has changed the FaceLock, the buffer, the completion
\* flag, the resolved result, frame_count, visitors or the histogram.
C34_OutageKeepsTracking == gh.outageKept

\* The camera is open again after a failed read, and the FaceLock and the
\* votes from before the read failed are there.
C34_Witness ==
  /\ wk.pc = "pub_ready" /\ wk.faults = 1
  /\ http.cmd = "start"
  /\ state.locked_face # None /\ Len(state.analysis_buffer) = 1
  /\ state.visitors = 1 /\ state.frame_count = 1

\* C35: no step of a tick that sampled the run flag false has changed a
\* display field, an entry of the histogram or the resolved result; such a
\* tick changes at most the FaceLock, visitors, frame_count, the camera
\* status, the latest frame, and the buffer and completion flag that a
\* new lock resets.
C35_IdleTickKeepsDisplay == gh.idleKept

\* A tick that sampled the run flag false after a stop command has ended,
\* and the result published before it is still displayed.
C35_Witness ==
  /\ wk.pc = "top" /\ ~wk.running /\ http.cmd = "stop"
  /\ state.frame_count = cfg.frames
  /\ state.locked_face # None /\ state.analysis_complete
  /\ Published(state) = state.final_result

IdleCallV2 == call.fn = "detection_v2" /\ call.done /\ ~call.running

\* C36: in api_backend_v2 a tick that sampled the run flag false leaves
\* the FaceLock and the visitor counter as it found them, whatever the
\* detector would return.
C36_NoDetectionWhileStopped ==
  IdleCallV2 =>
    /\ call.after.locked_face = call.before.locked_face
    /\ call.after.visitors = call.before.visitors

\* Stopped, unlocked, on an even frame_count, with a face in the zone: no
\* FaceLock is acquired.
C36_Witness ==
  /\ IdleCallV2
  /\ call.before.frame_count = 0 /\ call.before.locked_face = None
  /\ call.faces = << <<240, 120, 60, 60>> >>
  /\ InZone(call.faces[1], api_backend_v2)
  /\ call.after.locked_face = None /\ call.after.visitors = 0

\* C37: a detection tick that found a FaceLock leaves that lock, on a box
\* nearer than the threshold to the one it had, or no lock at all; it
\* creates no FaceLock and counts no visitor, whatever faces are in the
\* zone.
C37_NoJumpToFarFace ==
  LockedCall =>
    /\ call.after.visitors = call.before.visitors
    /\ call.after.analysis_buffer = call.before.analysis_buffer
    /\ call.result # None =>
         /\ call.result.start_time = call.locked_face.start_time
         /\ Dist(call.result.box, call.locked_face.box[1],
                 call.locked_face.box[2]) < call.variant.min_dist

\* The only face is in the zone, at the threshold distance from the lock:
\* the lock is cleared and no visitor counted.
C37_Witness ==
  /\ LockedCall /\ call.variant = api_backend
  /\ call.locked_face.box = <<200, 100, 60, 60>>
  /\ call.faces = << <<300, 100, 60, 60>> >>
  /\ RoiFaces(call.faces, call.variant) = call.faces
  /\ call.result = None /\ call.after.visitors = 1

\* C38: when the steps that read final_result run, and whenever
\* analysis_complete is set, a FaceLock has been created and its window
\* resolved since, final_result has the five keys emotion, age, gender,
\* heatmap and message, and its emotion is a key of emotion_stats, as is
\* every label a window can be resolved to.
C38_ResolvedResultComplete ==
  /\ RefinedLabels \cup {FinalEmotion(<<>>)} \subseteq
       DOMAIN state.emotion_stats
  /\ wk.pc \in {"pub_stats", "republish", "pub_res"} =>
       state.analysis_complete
  /\ state.analysis_complete =>
       /\ gh.locksCreated > 0 /\ gh.frozen # None
       /\ DOMAIN state.final_result =
            {"emotion", "age", "gender", "heatmap", "message"}
       /\ state.final_result.emotion \in DOMAIN state.emotion_stats

\* A resolved window has been counted and republished.
C38_Witness ==
  /\ wk.pc = "frame" /\ state.analysis_complete
  /\ state.final_result.emotion = "Sad"
  /\ state.emotion_stats["Sad"] = 1
  /\ state.message = <<EMOTION_MESSAGES("Sad")>>
====
